---- MODULE Spec2Model ----
(***************************************************************************)
(* hive-heat (src/src/main.rs): a command-line client that loads its       *)
(* settings, adopts a cached login token or logs in, fetches the product   *)
(* listing (logging in again once if that fails), finds the heating        *)
(* product and either prints its status or posts one change to it.         *)
(*                                                                         *)
(* Every invocation of the program is a process p \in Procs running main.  *)
(* The files ~/.hheat/conf.toml and ~/.hheat/token and the server are      *)
(* shared by the invocations.  A panic (unwrap/expect/index) ends the      *)
(* invocation with pc = "panic"; returning from main ends it with "done".  *)
(***************************************************************************)
EXTENDS Integers, Sequences, FiniteSets, TLC

VARIABLES
    home,           \* dirs::home_dir() is Some
    confFile,       \* ~/.hheat/conf.toml
    tokenFile,      \* ~/.hheat/token
    issued,         \* number of tokens the server has issued
    pc,             \* position of each invocation in main
    args,           \* env::args()
    settings,       \* main: settings
    token,          \* main: token (<<>> until it is bound)
    login_token,    \* login: token (the value send_login_request returned)
    retry,          \* main is inside the closure of lines 26-30
    product_json,   \* main: product_json
    heating_object, \* main: heating_object
    cmd,            \* the branch of lines 34-45 taken, with its operand
    out,            \* what output_status printed
    err,            \* the panic that ended the invocation
    hist,           \* the calls made so far, with the requests sent
    writes          \* what was done to ~/.hheat/token so far, in order

vars == <<home, confFile, tokenFile, issued, pc, args, settings, token,
          login_token, retry, product_json, heating_object, cmd, out, err, hist,
          writes>>

Procs == {"a", "b"}

\* Bound of the model.
MaxLen == 2      \* longest product listing the server returns

-----------------------------------------------------------------------------
(* Strings whose characters the program looks at are sequences of          *)
(* one-character strings.                                                  *)

ProgName == <<"h">>
ArgOff == <<"o", "f", "f">>
ArgManual == <<"m", "a", "n", "u", "a", "l">>
ArgSchedule == <<"s", "c", "h", "e", "d", "u", "l", "e">>
ArgUpperOff == <<"O", "F", "F">>
Arg19p5 == <<"1", "9", ".", "5">>
Arg21 == <<"2", "1">>
ArgAbc == <<"a", "b", "c">>
ArgNan == <<"n", "a", "N">>
ArgExtra == <<"x">>

FirstArgs == {ArgOff, ArgManual, ArgSchedule, ArgUpperOff, Arg19p5, Arg21, ArgAbc, ArgNan}

\* argv: nothing at all, the program name, one argument, or one argument
\* followed by another.
ArgLists ==
    {<< >>, <<ProgName>>}
    \cup {<<ProgName, a>> : a \in FirstArgs}
    \cup {<<ProgName, ArgManual, ArgExtra>>, <<ProgName, ArgAbc, ArgExtra>>}

-----------------------------------------------------------------------------
(* str::parse::<f64>: [sign] digits [. digits] [e [sign] digits], with at  *)
(* least one digit in the mantissa, or [sign] inf | infinity | nan in any  *)
(* case.  A finite value is kept as the decimal m * 10^-e with e minimal.  *)

DigitChars == <<"0", "1", "2", "3", "4", "5", "6", "7", "8", "9">>
IsDigit(c) == \E i \in 1..10 : DigitChars[i] = c
DigitVal(c) == (CHOOSE i \in 1..10 : DigitChars[i] = c) - 1

LowerChar(c) ==
    CASE c = "I" -> "i" [] c = "N" -> "n" [] c = "F" -> "f" [] c = "T" -> "t"
      [] c = "Y" -> "y" [] c = "A" -> "a" [] OTHER -> c
LowerSeq(s) == [i \in DOMAIN s |-> LowerChar(s[i])]

RECURSIVE DigitRun(_, _)
\* number of digits of s from position i on
DigitRun(s, i) == IF i <= Len(s) /\ IsDigit(s[i]) THEN 1 + DigitRun(s, i + 1) ELSE 0

RECURSIVE DigitsValue(_, _, _)
\* value of the n digits of s that start at position i
DigitsValue(s, i, n) ==
    IF n = 0 THEN 0 ELSE DigitsValue(s, i, n - 1) * 10 + DigitVal(s[i + n - 1])

RECURSIVE Pow10(_)
Pow10(n) == IF n = 0 THEN 1 ELSE 10 * Pow10(n - 1)

RECURSIVE Normal(_, _)
\* m * 10^-e with trailing zeros of the fraction removed
Normal(m, e) ==
    IF e > 0 /\ m % 10 = 0 THEN Normal(m \div 10, e - 1) ELSE [m |-> m, e |-> e]

ParseErr == [ok |-> FALSE, kind |-> "err", m |-> 0, e |-> 0]
Finite(m, e) ==
    LET n == IF e < 0 THEN Normal(m * Pow10(-e), 0) ELSE Normal(m, e)
    IN  [ok |-> TRUE, kind |-> "finite", m |-> n.m, e |-> n.e]
Special(k) == [ok |-> TRUE, kind |-> k, m |-> 0, e |-> 0]

ParseF64(s) ==
    LET signed == Len(s) > 0 /\ s[1] \in {"+", "-"}
        neg == signed /\ s[1] = "-"
        b == IF signed THEN 2 ELSE 1
        rest == LowerSeq(SubSeq(s, b, Len(s)))
        ni == DigitRun(s, b)
        dot == b + ni <= Len(s) /\ s[b + ni] = "."
        fb == IF dot THEN b + ni + 1 ELSE b + ni
        nf == IF dot THEN DigitRun(s, fb) ELSE 0
        eb == fb + nf
        hasExp == eb <= Len(s) /\ s[eb] \in {"e", "E"}
        esigned == hasExp /\ eb + 1 <= Len(s) /\ s[eb + 1] \in {"+", "-"}
        xb == IF esigned THEN eb + 2 ELSE eb + 1
        nx == IF hasExp THEN DigitRun(s, xb) ELSE 0
        endp == IF hasExp THEN xb + nx ELSE eb
        mant == DigitsValue(s, b, ni) * Pow10(nf) + DigitsValue(s, fb, nf)
        ex == IF hasExp
              THEN (IF esigned /\ s[eb + 1] = "-" THEN -1 ELSE 1) * DigitsValue(s, xb, nx)
              ELSE 0
    IN  IF rest \in {<<"i", "n", "f">>, <<"i", "n", "f", "i", "n", "i", "t", "y">>}
        THEN Special(IF neg THEN "-inf" ELSE "inf")
        ELSE IF rest = <<"n", "a", "n">> THEN Special("NaN")
        ELSE IF ni + nf = 0 \/ (hasExp /\ nx = 0) \/ endp # Len(s) + 1 THEN ParseErr
        ELSE Finite((IF neg THEN -1 ELSE 1) * mant, nf - ex)

-----------------------------------------------------------------------------
(* Tokens.  A token is an opaque string; the model keeps where it came     *)
(* from, its serial number at the server, and whether                      *)
(* HeaderValue::from_str accepts it (a cached file may hold any bytes).    *)

CachedToken(hv) == [src |-> "cached", n |-> 0, hv |-> hv]
IssuedToken(n, hv) == [src |-> "login", n |-> n, hv |-> hv]
EmptyToken == [src |-> "empty", n |-> 0, hv |-> TRUE]
HeaderValid(t) == t.hv

\* The length of the token's text: the cached token, the tokens the server
\* issues (of two lengths, by serial number), the empty string, and a
\* string read from a file that holds bytes of several tokens.
TokenLen(t) ==
    IF t.src = "empty" THEN 0
    ELSE IF t.src = "cached" THEN 2
    ELSE IF t.src = "mixed" THEN Len(t.bytes)
    ELSE IF t.n % 2 = 1 THEN 3 ELSE 1

\* token.as_bytes(): byte i of the text of t
as_bytes(t) ==
    IF t.src = "mixed" THEN t.bytes
    ELSE [i \in 1..TokenLen(t) |-> [of |-> t, i |-> i]]

\* The String that read_to_string makes of the bytes of a file: the token
\* whose bytes they are, or a string that is no token anyone wrote.
MixedToken(bytes) ==
    [src |-> "mixed", n |-> 0, hv |-> \A i \in DOMAIN bytes : bytes[i].of.hv, bytes |-> bytes]
read_to_string(bytes) ==
    IF bytes = << >> THEN EmptyToken
    ELSE IF bytes = as_bytes(bytes[1].of) THEN bytes[1].of
    ELSE MixedToken(bytes)

\* Option<String>: << >> is None, <<t>> is Some(t).
None == << >>
Some(t) == <<t>>

(* ~/.hheat/token: no such file, a file that cannot be opened, a file      *)
(* whose bytes read_to_string refuses, or a file holding the bytes of a    *)
(* token.                                                                  *)
FileMissing == [kind |-> "missing", data |-> << >>]
FileNoOpen == [kind |-> "noopen", data |-> << >>]
FileUnreadable == [kind |-> "unreadable", data |-> << >>]
FileData(t) == [kind |-> "data", data |-> as_bytes(t)]

TokenFiles ==
    {FileMissing, FileNoOpen, FileUnreadable} \cup {FileData(CachedToken(hv)) : hv \in BOOLEAN}

(* ~/.hheat/conf.toml: cannot be opened, cannot be read as a string, is    *)
(* not TOML, or is a TOML table in which username and password are each    *)
(* absent, a non-string value or a string.                                 *)
Conf(kind, u, pw) == [kind |-> kind, username |-> u, password |-> pw]
ConfFiles ==
    {Conf(k, "absent", "absent") : k \in {"noopen", "unreadable", "badtoml"}}
    \cup {Conf("toml", "str", "str"), Conf("toml", "absent", "str"),
          Conf("toml", "str", "absent"), Conf("toml", "nonstr", "str")}

-----------------------------------------------------------------------------
(* The server's answers.  send() fails on a transport error only; a        *)
(* response of any status is Ok(response).                                 *)

Statuses == {200, 401}

NetErr == [net |-> "err", status |-> 0, body |-> [kind |-> "none"]]
Answer(status, body) == [net |-> "ok", status |-> status, body |-> body]

\* POST global/login: the body is not JSON, is JSON without a string
\* "token", or carries a token.
LoginBodies ==
    {[kind |-> "nonjson", hv |-> TRUE], [kind |-> "notoken", hv |-> TRUE]}
    \cup {[kind |-> "token", hv |-> hv] : hv \in BOOLEAN}
LoginResponses == {NetErr} \cup {Answer(200, b) : b \in LoginBodies}

\* Product records of the listing (section 3 of the API's data model): a
\* record is a heating product with its fields, or a product of another type.
Modes == {"OFF", "MANUAL", "SCHEDULE"}
Heating(id, mode, working) ==
    [type |-> "heating", id |-> id,
     state |-> [mode |-> mode, target |-> [m |-> 21, e |-> 0]],
     props |-> [temperature |-> [m |-> 195, e |-> 1], working |-> working]]
Other(id) == [type |-> "light", id |-> id]

ProductKinds ==
    {<<"light", "OFF", FALSE>>, <<"heating", "OFF", TRUE>>, <<"heating", "OFF", FALSE>>,
     <<"heating", "MANUAL", TRUE>>, <<"heating", "SCHEDULE", FALSE>>}
MakeProduct(k, id) == IF k[1] = "heating" THEN Heating(id, k[2], k[3]) ELSE Other(id)
\* listings of up to MaxLen products; the i-th product has id i
Listings ==
    UNION {{[i \in 1..n |-> MakeProduct(ks[i], i)] : ks \in [1..n -> ProductKinds]} : n \in 0..MaxLen}

\* GET products: the body is not JSON, a JSON object with or without an
\* "error" member, or a JSON array of products. The server sends a listing
\* with a success status only; the other bodies come with either status.
JsonObject(error) == [kind |-> "object", error |-> error, items |-> << >>]
JsonArray(items) == [kind |-> "array", error |-> FALSE, items |-> items]
NonJson == [kind |-> "nonjson", error |-> FALSE, items |-> << >>]
ProductResponses ==
    {NetErr} \cup {Answer(s, b) : s \in Statuses, b \in {NonJson} \cup {JsonObject(e) : e \in BOOLEAN}}
             \cup {Answer(200, JsonArray(l)) : l \in Listings}

\* POST nodes/heating/{id}: only the transport outcome and the status exist
\* for the program.
NodeResponses == {NetErr} \cup {Answer(s, [kind |-> "none"]) : s \in Statuses}

-----------------------------------------------------------------------------
(* The functions of main.rs, as functions of what they read.  A result is  *)
(* Ok(v), Err (a Result::Err handed back to the caller) or a panic.        *)

Ok(v) == [tag |-> "Ok", val |-> v, msg |-> ""]
Err(msg) == [tag |-> "Err", val |-> << >>, msg |-> msg]
Panic(msg) == [tag |-> "panic", val |-> << >>, msg |-> msg]

\* load_settings: the parsed TOML table, or a panic.
load_settings(h, file) ==
    IF ~h THEN Panic("home_dir")
    ELSE IF file.kind = "noopen" THEN Panic("Failed to open ~/.hheat/conf.toml")
    ELSE IF file.kind = "unreadable" THEN Panic("read_to_string")
    ELSE IF file.kind = "badtoml" THEN Panic("toml parse")
    ELSE Ok([username |-> file.username, password |-> file.password])

\* load_token: None when File::open fails, a panic when the read fails.
load_token(h, file) ==
    IF ~h THEN Panic("home_dir")
    ELSE IF file.kind \in {"missing", "noopen"} THEN Ok(None)
    ELSE IF file.kind = "unreadable" THEN Panic("read_to_string")
    ELSE Ok(Some(read_to_string(file.data)))

\* login, line 78: settings["username"].as_str().unwrap(), then the same
\* for "password", evaluated before send_login_request is entered.
credentials(s) ==
    IF s.username = "absent" THEN Panic("index not found: username")
    ELSE IF s.username # "str" THEN Panic("username: unwrap on None")
    ELSE IF s.password = "absent" THEN Panic("index not found: password")
    ELSE IF s.password # "str" THEN Panic("password: unwrap on None")
    ELSE Ok(<<"username", "password">>)

\* send_login_request: the token of the response r; n is the serial number
\* the server gives the token it issues. The status is not looked at.
\* (variant: a body without a token is not refused)
send_login_request_any_body(r, n) ==
    IF r.net = "err" THEN Panic("Login request failed")
    ELSE IF r.body.kind = "nonjson" THEN Panic("Failed to parse login response")
    ELSE Ok(IssuedToken(n, r.body.hv))
send_login_request(r, n) ==
    IF r.net = "err" THEN Panic("Login request failed")
    ELSE IF r.body.kind = "nonjson" THEN Panic("Failed to parse login response")
    ELSE IF r.body.kind # "token" THEN Panic("Failed to get login token")
    ELSE Ok(IssuedToken(n, r.body.hv))

\* fs::write is File::create(path)?.write_all(bytes): create opens the file
\* for writing, making it when missing and truncating it, and write_all
\* puts the bytes at the start of the file, over what is there.
\* (variant: the file is opened without truncation)
create_keep_content(file) == [kind |-> "data", data |-> file.data]
create(file) == [kind |-> "data", data |-> << >>]
write_all(file, bytes) ==
    [kind |-> "data",
     data |-> [i \in 1..(IF Len(bytes) > Len(file.data) THEN Len(bytes) ELSE Len(file.data)) |->
                  IF i <= Len(bytes) THEN bytes[i] ELSE file.data[i]]]

\* save_token: fs::write creates (truncates) the file and writes the token;
\* w says how far it got. The value is the file afterwards.
WriteOutcomes == {"ok", "nocreate", "partial"}
\* (variant: the result of fs::write is dropped)
save_token_ignore_failure(h, file, t, w) ==
    IF ~h THEN [res |-> Panic("home_dir"), file |-> file]
    ELSE IF w = "nocreate" THEN [res |-> Ok(t), file |-> file]
    ELSE IF w = "partial" THEN [res |-> Ok(t), file |-> create(file)]
    ELSE [res |-> Ok(t), file |-> write_all(create(file), as_bytes(t))]
\* (variant: nothing is written)
save_token_no_write(h, file, t, w) ==
    IF ~h THEN [res |-> Panic("home_dir"), file |-> file]
    ELSE IF w = "ok" THEN [res |-> Ok(t), file |-> file]
    ELSE [res |-> Panic("Failed to write"), file |-> file]
save_token(h, file, t, w) ==
    IF ~h THEN [res |-> Panic("home_dir"), file |-> file]
    ELSE IF w = "nocreate" THEN [res |-> Panic("Failed to write"), file |-> file]
    ELSE IF w = "partial" THEN [res |-> Panic("Failed to write"), file |-> create(file)]
    ELSE [res |-> Ok(t), file |-> write_all(create(file), as_bytes(t))]

\* retrieve_products_json: line 111 returns Err before anything is sent when
\* the token is no header value; send()? returns Err on a transport error;
\* the body must be JSON; an object with "error" is Err. The status is not
\* looked at.
products_request_sent(t) == HeaderValid(t)
retrieve_products_json(t, r) ==
    IF ~HeaderValid(t) THEN Err("invalid header value")
    ELSE IF r.net = "err" THEN Err("send")
    ELSE IF r.body.kind = "nonjson" THEN Panic("Failed to parse products response")
    ELSE IF r.body.kind = "object" /\ r.body.error THEN Err("Error getting JSON")
    ELSE Ok(r.body)

\* find_heating_object: the loop of lines 125-130 from position i on.
RECURSIVE FindFrom(_, _)
FindFrom(items, i) ==
    IF i > Len(items) THEN Panic("explicit panic")
    ELSE IF items[i].type = "heating" THEN Ok(items[i])
    ELSE FindFrom(items, i + 1)
\* (variant: the loop does not return at the first match, the last one wins)
RECURSIVE FindBack(_, _)
FindBack(items, i) ==
    IF i < 1 THEN Panic("explicit panic")
    ELSE IF items[i].type = "heating" THEN Ok(items[i])
    ELSE FindBack(items, i - 1)
find_heating_object_last(json) ==
    IF json.kind # "array" THEN Panic("as_array: unwrap on None")
    ELSE FindBack(json.items, Len(json.items))
find_heating_object(json) ==
    IF json.kind # "array" THEN Panic("as_array: unwrap on None") ELSE FindFrom(json.items, 1)

\* str::to_lowercase on the mode literals
to_lowercase(mode) ==
    CASE mode = "OFF" -> "off" [] mode = "MANUAL" -> "manual"
      [] mode = "SCHEDULE" -> "schedule" [] OTHER -> mode

\* output_status: the three lines printed, by their fields.
\* (variant: the mode is not looked at)
output_status_working_only(h) ==
    [mode |-> to_lowercase(h.state.mode),
     temperature |-> h.props.temperature,
     target |-> h.state.target,
     working_indicator |-> h.props.working]
output_status(h) ==
    [mode |-> to_lowercase(h.state.mode),
     temperature |-> h.props.temperature,
     target |-> h.state.target,
     working_indicator |-> h.props.working /\ h.state.mode # "OFF"]

\* The request bodies, member by member in the order written. A mode is
\* written as a bare literal.
\* (variant: the mode is never switched)
set_target_temp_body_target_only(mode, target_temp) == << <<"target", target_temp>> >>
set_target_temp_body(mode, target_temp) ==
    IF mode = "OFF"
    THEN << <<"target", target_temp>>, <<"mode", "MANUAL">> >>
    ELSE << <<"target", target_temp>> >>
set_mode_body(mode) == << <<"mode", mode>> >>

\* .send().expect(..) of set_target_temp and set_mode: only a transport
\* error panics; the status of the response is not looked at.
send_expect(r, msg) == IF r.net = "err" THEN Panic(msg) ELSE Ok(r.status)

\* main, lines 34-45: the branch taken for argv.
Command(c, mode, v) == [c |-> c, mode |-> mode, target_temp |-> v]
NoCommand == Command("none", "", ParseErr)
\* (variant: without an argument the heating is switched off)
dispatch_no_argument_posts(argv) ==
    IF Len(argv) <= 1 THEN Command("set_mode", "OFF", ParseErr)
    ELSE IF argv[2] = ArgOff THEN Command("set_mode", "OFF", ParseErr)
    ELSE IF argv[2] = ArgManual THEN Command("set_mode", "MANUAL", ParseErr)
    ELSE IF argv[2] = ArgSchedule THEN Command("set_mode", "SCHEDULE", ParseErr)
    ELSE IF ParseF64(argv[2]).ok THEN Command("set_target_temp", "", ParseF64(argv[2]))
    ELSE Command("parse_panic", "", ParseErr)
\* (variant: the literals of "manual" and "schedule" are exchanged)
dispatch_exchanged(argv) ==
    IF Len(argv) = 1 THEN Command("output_status", "", ParseErr)
    ELSE IF Len(argv) = 0 THEN Command("index_panic", "", ParseErr)
    ELSE IF argv[2] = ArgOff THEN Command("set_mode", "OFF", ParseErr)
    ELSE IF argv[2] = ArgManual THEN Command("set_mode", "SCHEDULE", ParseErr)
    ELSE IF argv[2] = ArgSchedule THEN Command("set_mode", "MANUAL", ParseErr)
    ELSE IF ParseF64(argv[2]).ok THEN Command("set_target_temp", "", ParseF64(argv[2]))
    ELSE Command("parse_panic", "", ParseErr)
dispatch(argv) ==
    IF Len(argv) = 1 THEN Command("output_status", "", ParseErr)
    ELSE IF Len(argv) = 0 THEN Command("index_panic", "", ParseErr)
    ELSE IF argv[2] = ArgOff THEN Command("set_mode", "OFF", ParseErr)
    ELSE IF argv[2] = ArgManual THEN Command("set_mode", "MANUAL", ParseErr)
    ELSE IF argv[2] = ArgSchedule THEN Command("set_mode", "SCHEDULE", ParseErr)
    ELSE IF ParseF64(argv[2]).ok THEN Command("set_target_temp", "", ParseF64(argv[2]))
    ELSE Command("parse_panic", "", ParseErr)

\* set_mode and set_target_temp end with .expect(..): a panic, or the
\* return to main, which returns. `at` is where the post was made from.
\* (variant: a failed post is made again)
after_post_again(tag, at) == IF tag = "Ok" THEN "done" ELSE at
after_post(tag, at) == IF tag = "Ok" THEN "done" ELSE "panic"

\* main, lines 22 and 28: the token login returns is bound to main's token
\* (let mut token = .. at line 22, token = login(..) inside the closure).
\* (variant: the assignment inside the closure is lost)
bind_token_outside_closure(old, new, inClosure) == IF inClosure THEN old ELSE Some(new)
bind_token(old, new, inClosure) == Some(new)

\* main, lines 22-24: load_token().unwrap_or_else(|| login(..)).
\* (variant: login whether or not a token was loaded)
after_load_token_always_login(opt) == "login"
after_load_token(opt) == IF opt = None THEN "login" ELSE "fetch"

\* main, lines 26-30: the first failure of retrieve_products_json enters the
\* closure (login, then retrieve again); inside it .unwrap() panics.
\* (variant: every failure logs in and retrieves again)
after_retrieve_always_retry(tag, inClosure) ==
    IF tag = "Ok" THEN "find" ELSE IF tag = "Err" THEN "login" ELSE "panic"
after_retrieve(tag, inClosure) ==
    IF tag = "Ok" THEN "find"
    ELSE IF tag = "Err" /\ ~inClosure THEN "login"
    ELSE "panic"

-----------------------------------------------------------------------------
(* State of an invocation before main has bound a variable.                *)

NoSettings == [username |-> "absent", password |-> "absent"]
NoJson == [kind |-> "none", error |-> FALSE, items |-> << >>]
NoResponse == [net |-> "none", status |-> 0, body |-> [kind |-> "none"]]

\* One call of load_token, send_login_request, save_token,
\* retrieve_products_json, set_mode or set_target_temp: whether a request
\* went out, the token it carried (load_token: returned, save_token: was
\* given), its body, the
\* device addressed, the response, the token file as the call left it, and
\* how the call ended.
Call(op, sent, auth, body, device, r, file, tag) ==
    [op |-> op, sent |-> sent, auth |-> auth, body |-> body, device |-> device,
     resp |-> r, file |-> file, result |-> tag]

\* One operation on ~/.hheat/token: invocation p created (truncated) it or
\* wrote the bytes of token t to it.
FileEvent(p, ev, t) == [by |-> p, ev |-> ev, token |-> t]

InitOf(running) ==
    /\ home \in BOOLEAN
    /\ confFile \in ConfFiles
    /\ tokenFile \in TokenFiles
    /\ issued = 0
    /\ pc = [p \in Procs |-> IF p \in running THEN "start" ELSE "idle"]
    /\ args \in {f \in [Procs -> ArgLists] : \A p \in Procs \ running : f[p] = << >>}
    /\ settings = [p \in Procs |-> NoSettings]
    /\ token = [p \in Procs |-> None]
    /\ login_token = [p \in Procs |-> None]
    /\ retry = [p \in Procs |-> FALSE]
    /\ product_json = [p \in Procs |-> NoJson]
    /\ heating_object = [p \in Procs |-> None]
    /\ cmd = [p \in Procs |-> NoCommand]
    /\ out = [p \in Procs |-> None]
    /\ err = [p \in Procs |-> ""]
    /\ hist = [p \in Procs |-> << >>]
    /\ writes = << >>

\* A single invocation.
Init == InitOf({"a"})

-----------------------------------------------------------------------------
(* The steps of main.                                                      *)

\* line 18: let settings = load_settings();
LoadSettings(p) ==
    /\ pc[p] = "start"
    /\ LET r == load_settings(home, confFile)
       IN  /\ settings' = [settings EXCEPT ![p] = IF r.tag = "Ok" THEN r.val ELSE @]
           /\ pc' = [pc EXCEPT ![p] = IF r.tag = "Ok" THEN "load_token" ELSE "panic"]
           /\ err' = [err EXCEPT ![p] = r.msg]
    /\ UNCHANGED <<home, confFile, tokenFile, writes, issued, args, token, login_token, retry,
                   product_json, heating_object, cmd, out, hist>>

\* line 22: load_token(), and the choice of unwrap_or_else
LoadToken(p) ==
    /\ pc[p] = "load_token"
    /\ LET r == load_token(home, tokenFile)
       IN  /\ token' = [token EXCEPT ![p] = IF r.tag = "Ok" THEN r.val ELSE @]
           /\ pc' = [pc EXCEPT ![p] = IF r.tag = "Ok" THEN after_load_token(r.val) ELSE "panic"]
           /\ err' = [err EXCEPT ![p] = r.msg]
           /\ hist' = [hist EXCEPT ![p] =
                 Append(@, Call("load", FALSE, r.val, << >>, 0, NoResponse, tokenFile, r.tag))]
    /\ UNCHANGED <<home, confFile, tokenFile, writes, issued, args, settings, login_token, retry,
                   product_json, heating_object, cmd, out>>

\* login, line 78: the credentials are taken from the settings and
\* send_login_request posts them and reads the token of the response
SendLoginRequestOf(p, answers) ==
    /\ pc[p] = "login"
    /\ LET c == credentials(settings[p])
       IN  \E r \in IF c.tag = "Ok" THEN answers ELSE {NoResponse} :
             LET res == IF c.tag = "Ok" THEN send_login_request(r, issued + 1) ELSE c
             IN  /\ issued' = IF res.tag = "Ok" THEN issued + 1 ELSE issued
                 /\ login_token' = [login_token EXCEPT ![p] =
                                       IF res.tag = "Ok" THEN Some(res.val) ELSE None]
                 /\ pc' = [pc EXCEPT ![p] = IF res.tag = "Ok" THEN "save" ELSE "panic"]
                 /\ err' = [err EXCEPT ![p] = res.msg]
                 /\ hist' = [hist EXCEPT ![p] =
                       Append(@, Call("login", c.tag = "Ok", None, c.val, 0, r, tokenFile, res.tag))]
    /\ UNCHANGED <<home, confFile, tokenFile, writes, args, settings, token, retry,
                   product_json, heating_object, cmd, out>>

\* login, lines 80-81: save_token(&token); the token is returned to main,
\* which binds it (line 22 or line 28)
SaveToken(p) ==
    /\ pc[p] = "save"
    /\ \E w \in WriteOutcomes :
         LET s == save_token(home, tokenFile, login_token[p][1], w)
         IN  /\ tokenFile' = s.file
             /\ token' = [token EXCEPT ![p] =
                   IF s.res.tag = "Ok" THEN bind_token(@, s.res.val, retry[p]) ELSE @]
             /\ pc' = [pc EXCEPT ![p] = IF s.res.tag = "Ok" THEN "fetch" ELSE "panic"]
             /\ err' = [err EXCEPT ![p] = s.res.msg]
             /\ hist' = [hist EXCEPT ![p] =
                   Append(@, Call("save", FALSE, login_token[p], << >>, 0, NoResponse, s.file, s.res.tag))]
             /\ writes' = IF ~home \/ w = "nocreate" THEN writes
                          ELSE IF w = "partial"
                               THEN Append(writes, FileEvent(p, "create", login_token[p][1]))
                          ELSE writes \o <<FileEvent(p, "create", login_token[p][1]),
                                           FileEvent(p, "write_all", login_token[p][1])>>
    /\ UNCHANGED <<home, confFile, issued, args, settings, login_token, retry,
                   product_json, heating_object, cmd, out>>

\* lines 26 and 29: retrieve_products_json(&client, &token)
RetrieveProductsJsonOf(p, answers) ==
    /\ pc[p] = "fetch"
    /\ LET t == token[p][1]
       IN  \E r \in IF products_request_sent(t) THEN answers ELSE {NoResponse} :
             LET res == retrieve_products_json(t, r)
                 next == after_retrieve(res.tag, retry[p])
             IN  /\ pc' = [pc EXCEPT ![p] = next]
                 /\ retry' = [retry EXCEPT ![p] = IF next = "login" THEN TRUE ELSE @]
                 /\ product_json' = [product_json EXCEPT ![p] =
                                        IF res.tag = "Ok" THEN res.val ELSE @]
                 /\ err' = [err EXCEPT ![p] = IF next = "panic" THEN res.msg ELSE @]
                 /\ hist' = [hist EXCEPT ![p] =
                       Append(@, Call("products", products_request_sent(t), Some(t), << >>, 0,
                                      r, tokenFile, res.tag))]
    /\ UNCHANGED <<home, confFile, tokenFile, writes, issued, args, settings, token, login_token,
                   heating_object, cmd, out>>

\* line 32: find_heating_object(&product_json)
FindHeatingObject(p) ==
    /\ pc[p] = "find"
    /\ LET r == find_heating_object(product_json[p])
       IN  /\ heating_object' = [heating_object EXCEPT ![p] =
                                    IF r.tag = "Ok" THEN Some(r.val) ELSE @]
           /\ pc' = [pc EXCEPT ![p] = IF r.tag = "Ok" THEN "dispatch" ELSE "panic"]
           /\ err' = [err EXCEPT ![p] = r.msg]
    /\ UNCHANGED <<home, confFile, tokenFile, writes, issued, args, settings, token, login_token,
                   retry, product_json, cmd, out, hist>>

\* lines 34-45: the branch on args; output_status prints and main returns,
\* set_mode and set_target_temp go on to their request
Dispatch(p) ==
    /\ pc[p] = "dispatch"
    /\ LET c == dispatch(args[p])
       IN  /\ cmd' = [cmd EXCEPT ![p] = c]
           /\ out' = [out EXCEPT ![p] =
                         IF c.c = "output_status"
                         THEN Some(output_status(heating_object[p][1])) ELSE @]
           /\ pc' = [pc EXCEPT ![p] =
                        CASE c.c = "output_status" -> "done"
                          [] c.c \in {"set_mode", "set_target_temp"} -> c.c
                          [] OTHER -> "panic"]
           /\ err' = [err EXCEPT ![p] =
                         CASE c.c = "index_panic" -> "index out of bounds"
                           [] c.c = "parse_panic" -> "ParseFloatError"
                           [] OTHER -> @]
    /\ UNCHANGED <<home, confFile, tokenFile, writes, issued, args, settings, token, login_token,
                   retry, product_json, heating_object, hist>>

\* The post of set_mode and set_target_temp: HeaderValue::from_str(token)
\* .unwrap() panics before anything is sent; otherwise the request goes out
\* and .expect() decides.
Post(p, body, msg, answers) ==
    LET t == token[p][1]
        h == heating_object[p][1]
    IN  \E r \in IF HeaderValid(t) THEN answers ELSE {NoResponse} :
          LET res == IF HeaderValid(t) THEN send_expect(r, msg) ELSE Panic("invalid header value")
          IN  /\ pc' = [pc EXCEPT ![p] = after_post(res.tag, pc[p])]
              /\ err' = [err EXCEPT ![p] = res.msg]
              /\ hist' = [hist EXCEPT ![p] =
                    Append(@, Call("node", HeaderValid(t), Some(t), body, h.id, r,
                                   tokenFile, res.tag))]

\* set_mode(&client, &heating_object, &token, mode)
SetModeOf(p, answers) ==
    /\ pc[p] = "set_mode"
    /\ Post(p, set_mode_body(cmd[p].mode), "Set mode request failed", answers)
    /\ UNCHANGED <<home, confFile, tokenFile, writes, issued, args, settings, token, login_token,
                   retry, product_json, heating_object, cmd, out>>

\* set_target_temp(&client, &heating_object, &token, target_temp)
SetTargetTempOf(p, answers) ==
    /\ pc[p] = "set_target_temp"
    /\ Post(p, set_target_temp_body(heating_object[p][1].state.mode, cmd[p].target_temp),
            "Set temperature request failed", answers)
    /\ UNCHANGED <<home, confFile, tokenFile, writes, issued, args, settings, token, login_token,
                   retry, product_json, heating_object, cmd, out>>

\* The steps that talk to the server, with every answer it can give.
SendLoginRequest(p) == SendLoginRequestOf(p, LoginResponses)
RetrieveProductsJson(p) == RetrieveProductsJsonOf(p, ProductResponses)
SetMode(p) == SetModeOf(p, NodeResponses)
SetTargetTemp(p) == SetTargetTempOf(p, NodeResponses)

Step(p) ==
    \/ LoadSettings(p)
    \/ LoadToken(p)
    \/ SendLoginRequest(p)
    \/ SaveToken(p)
    \/ RetrieveProductsJson(p)
    \/ FindHeatingObject(p)
    \/ Dispatch(p)
    \/ SetMode(p)
    \/ SetTargetTemp(p)

Next == \E p \in Procs : Step(p)

Spec == Init /\ [][Next]_vars

-----------------------------------------------------------------------------
(* Two invocations at once.  fs::write is two system calls on the shared   *)
(* file, the open that truncates and the write, and a step of the other    *)
(* invocation can fall between them; every other step of main touches the  *)
(* file or the server at most once.                                        *)

\* save_token, line 103, first half: File::create
CreateTokenFile(p) ==
    /\ pc[p] = "save"
    /\ \E w \in {"ok", "nocreate"} :
         LET failed == ~home \/ w = "nocreate"
             s == save_token(home, tokenFile, login_token[p][1], "nocreate")
         IN  /\ tokenFile' = IF failed THEN tokenFile ELSE create(tokenFile)
             /\ pc' = [pc EXCEPT ![p] = IF failed THEN "panic" ELSE "write_all"]
             /\ err' = [err EXCEPT ![p] = IF failed THEN s.res.msg ELSE @]
             /\ hist' = [hist EXCEPT ![p] =
                   IF failed
                   THEN Append(@, Call("save", FALSE, login_token[p], << >>, 0, NoResponse,
                                       tokenFile, s.res.tag))
                   ELSE @]
             /\ writes' = IF failed THEN writes
                          ELSE Append(writes, FileEvent(p, "create", login_token[p][1]))
    /\ UNCHANGED <<home, confFile, issued, args, settings, token, login_token, retry,
                   product_json, heating_object, cmd, out>>

\* save_token, line 103, second half: write_all, and the return to main
WriteAll(p) ==
    /\ pc[p] = "write_all"
    /\ \E w \in {"ok", "partial"} :
         LET t == login_token[p][1]
             file == IF w = "ok" THEN write_all(tokenFile, as_bytes(t)) ELSE tokenFile
         IN  /\ tokenFile' = file
             /\ token' = [token EXCEPT ![p] =
                   IF w = "ok" THEN bind_token(@, t, retry[p]) ELSE @]
             /\ pc' = [pc EXCEPT ![p] = IF w = "ok" THEN "fetch" ELSE "panic"]
             /\ err' = [err EXCEPT ![p] = IF w = "ok" THEN @ ELSE "Failed to write"]
             /\ hist' = [hist EXCEPT ![p] =
                   Append(@, Call("save", FALSE, login_token[p], << >>, 0, NoResponse, file,
                                  IF w = "ok" THEN "Ok" ELSE "panic"))]
             /\ writes' = IF w = "ok" THEN Append(writes, FileEvent(p, "write_all", t))
                          ELSE writes
    /\ UNCHANGED <<home, confFile, issued, args, settings, login_token, retry,
                   product_json, heating_object, cmd, out>>

\* The runs looked at: the home directory and the settings are in order,
\* the token file holds a token, one invocation sets the mode and the other
\* the target, and the server answers a login with a token, a listing fetch
\* with one heating product or an error object, and a change with a bare
\* acknowledgement.
ConcLoginResponses == {Answer(200, [kind |-> "token", hv |-> TRUE])}
ConcProductResponses ==
    {Answer(200, JsonArray(<<Heating(1, "MANUAL", TRUE)>>)), Answer(401, JsonObject(TRUE))}
ConcNodeResponses == {Answer(200, [kind |-> "none"])}

StepConc(p) ==
    \/ LoadSettings(p)
    \/ LoadToken(p)
    \/ SendLoginRequestOf(p, ConcLoginResponses)
    \/ CreateTokenFile(p)
    \/ WriteAll(p)
    \/ RetrieveProductsJsonOf(p, ConcProductResponses)
    \/ FindHeatingObject(p)
    \/ Dispatch(p)
    \/ SetModeOf(p, ConcNodeResponses)
    \/ SetTargetTempOf(p, ConcNodeResponses)

InitConc ==
    /\ InitOf(Procs)
    /\ home
    /\ confFile = Conf("toml", "str", "str")
    /\ tokenFile = FileData(CachedToken(TRUE))
    /\ args = [p \in Procs |-> IF p = "a" THEN <<ProgName, ArgManual>> ELSE <<ProgName, Arg21>>]

NextConc == \E p \in Procs : StepConc(p)

SpecConc == InitConc /\ [][NextConc]_vars

-----------------------------------------------------------------------------
(* What the properties below read off hist.                                *)

Calls(p, op) == {i \in DOMAIN hist[p] : hist[p][i].op = op}
NCalls(p, op) == Cardinality(Calls(p, op))
First(S) == CHOOSE i \in S : \A j \in S : i <= j
CallsBefore(p, op, i) == Cardinality({j \in Calls(p, op) : j < i})
Requests(p) == {i \in DOMAIN hist[p] : hist[p][i].sent}
Ended(p) == pc[p] \in {"done", "panic"}

\* load_token found no token / found one
LoadedNone(p) == \E i \in Calls(p, "load") : hist[p][i].result = "Ok" /\ hist[p][i].auth = None
LoadedSome(p) == \E i \in Calls(p, "load") : hist[p][i].result = "Ok" /\ hist[p][i].auth # None

\* a 2xx status
IsSuccess(status) == status >= 200 /\ status < 300

\* A listing fetch succeeded: the call returned Ok on a success status.
\* It failed otherwise (no request, transport error, non-2xx, error object,
\* body that is not JSON).
FetchOk(c) == c.op = "products" /\ c.result = "Ok" /\ IsSuccess(c.resp.status)
FetchFailed(c) == c.op = "products" /\ ~FetchOk(c)
FirstFetchFailed(p) ==
    Calls(p, "products") # {} /\ FetchFailed(hist[p][First(Calls(p, "products"))])

-----------------------------------------------------------------------------
\* C1 (as stated): in every run whose cached token is absent or rejected,
\* exactly one login call precedes the listing fetch that succeeds.
C1_OneLoginBeforeSuccess ==
    \A p \in Procs : \A i \in Calls(p, "products") :
        (FetchOk(hist[p][i]) /\ (LoadedNone(p) \/ FirstFetchFailed(p)))
            => CallsBefore(p, "login", i) = 1

\* C1 (amended): when the cached token is absent or rejected, exactly one
\* login call precedes the listing fetch that succeeds, except that two do
\* when the token was absent and the first fetch (with the token just issued)
\* failed; no run makes more than two login calls or two listing fetches.
C1_LoginsBeforeSuccess ==
    \A p \in Procs :
        /\ NCalls(p, "login") <= 2
        /\ NCalls(p, "products") <= 2
        /\ \A i \in Calls(p, "products") :
              (FetchOk(hist[p][i]) /\ (LoadedNone(p) \/ FirstFetchFailed(p)))
                  => CallsBefore(p, "login", i) =
                        (IF LoadedNone(p) /\ FirstFetchFailed(p) THEN 2 ELSE 1)

\* C1 witness: the cached token was rejected, one login followed, and the
\* second fetch succeeded.
C1_Witness ==
    \E i \in Calls("a", "products") :
        /\ LoadedSome("a") /\ FirstFetchFailed("a")
        /\ FetchOk(hist["a"][i]) /\ CallsBefore("a", "login", i) = 1

\* The three failures of a listing fetch that C2 names: a transport error, a
\* non-2xx response, a JSON object with an "error" member.
NamedFailure(c) ==
    /\ c.op = "products" /\ c.sent
    /\ \/ c.resp.net = "err"
       \/ ~IsSuccess(c.resp.status)
       \/ (c.resp.body.kind = "object" /\ c.resp.body.error)

\* The calls that follow call i of p are a login and, when it got a token,
\* its save and, when that was written, one more fetch with the new token.
ReloginFollows(p, i) ==
    LET h == hist[p]
    IN  /\ Len(h) > i /\ h[i + 1].op = "login"
        /\ h[i + 1].result = "Ok" =>
              /\ Len(h) > i + 1 /\ h[i + 2].op = "save"
              /\ h[i + 2].result = "Ok" =>
                    /\ Len(h) > i + 2 /\ h[i + 3].op = "products"
                    /\ h[i + 2].file = FileData(h[i + 3].auth[1])
                    /\ h[i + 3].auth # h[i].auth
                    /\ NCalls(p, "products") = 2

\* C2 (as stated): a run whose first listing fetch fails by a transport
\* error, a non-2xx response or an error object logs in afresh, saves the
\* token and fetches exactly once more with it.
C2_AnyFailureTriggersRelogin ==
    \A p \in Procs :
        (Ended(p) /\ Calls(p, "products") # {}
                  /\ NamedFailure(hist[p][First(Calls(p, "products"))]))
            => ReloginFollows(p, First(Calls(p, "products")))

\* What the code does instead: the re-login follows exactly the fetches that
\* return Err (no header value, transport error, error object), whatever the
\* status.
C2_ErrTriggersRelogin ==
    \A p \in Procs :
        (Ended(p) /\ Calls(p, "products") # {})
            => LET i == First(Calls(p, "products"))
               IN  IF hist[p][i].result = "Err" THEN ReloginFollows(p, i)
                   ELSE NCalls(p, "login") = CallsBefore(p, "login", i)

\* C3: a run that loads a cached token and whose first listing fetch the
\* server accepts makes exactly one listing fetch and no login call.
C3_CachedAcceptedNoLogin ==
    \A p \in Procs :
        (LoadedSome(p) /\ Calls(p, "products") # {} /\ ~FirstFetchFailed(p))
            => /\ NCalls(p, "login") = 0
               /\ NCalls(p, "products") = 1
               /\ hist[p][First(Calls(p, "products"))].auth = hist[p][1].auth

\* C3 witness: such a run has ended normally.
C3_Witness ==
    /\ pc["a"] = "done" /\ LoadedSome("a")
    /\ Calls("a", "products") # {} /\ ~FirstFetchFailed("a")
    /\ tokenFile = FileData(CachedToken(TRUE))

\* C4: the re-login recovery happens at most once: when the listing fetch
\* made after the re-login fails too, it is the last call of the run (no
\* further login, fetch or change request) and the run ends in a panic; a run
\* makes at most two listing fetches.
C4_SecondFailureIsFatal ==
    \A p \in Procs :
        /\ NCalls(p, "products") <= 2
        /\ \A i \in Calls(p, "products") :
              (CallsBefore(p, "products", i) = 1 /\ FetchFailed(hist[p][i]))
                  => /\ i = Len(hist[p])
                     /\ pc[p] \in {"find", "panic"}
                     /\ pc[p] = "find" => product_json[p].kind # "array"

\* C4 witness: the second fetch failed and the run has panicked.
C4_Witness ==
    \E i \in Calls("a", "products") :
        /\ CallsBefore("a", "products", i) = 1 /\ FetchFailed(hist["a"][i])
        /\ pc["a"] = "panic" /\ NCalls("a", "login") = 1

\* C5 (as stated): a change request answered with a non-success response
\* never lets the run finish normally.
C5_NonSuccessIsFatal ==
    \A p \in Procs : \A i \in Calls(p, "node") :
        (hist[p][i].resp.net = "ok" /\ ~IsSuccess(hist[p][i].resp.status))
            => pc[p] # "done"

\* C6: a run that dispatches set_mode or set_target_temp sends exactly one
\* change request; whether it succeeds or fails it is the last call of the
\* run: no login, listing fetch or second change request follows.
C6_OneMutationNoRetry ==
    \A p \in Procs :
        /\ NCalls(p, "node") <= 1
        /\ \A i \in Calls(p, "node") :
              /\ hist[p][i].sent
              /\ i = Len(hist[p])
              /\ Ended(p)
        /\ (Ended(p) /\ cmd[p].c \in {"set_mode", "set_target_temp"})
              => NCalls(p, "node") = 1
        /\ pc[p] \in {"set_mode", "set_target_temp"}
              => cmd[p].c = pc[p] /\ NCalls(p, "node") = 0

\* C6 witness: the one change request failed in transport and the run ended
\* there.
C6_Witness ==
    /\ pc["a"] = "panic" /\ NCalls("a", "node") = 1
    /\ hist["a"][Len(hist["a"])].op = "node"
    /\ hist["a"][Len(hist["a"])].resp.net = "err"

\* the config file is missing, or lacks username or password
BadConfig ==
    \/ confFile.kind = "noopen"
    \/ confFile.kind = "toml" /\ "absent" \in {confFile.username, confFile.password}

\* C7 (as stated): with the config file missing or lacking username or
\* password the run sends no request and does not finish normally.
C7_BadConfigFatalAtStartup ==
    \A p \in Procs : BadConfig => (Requests(p) = {} /\ pc[p] # "done")

\* C8 (as stated): load_token returns absent, and the run goes on to login,
\* whenever the token file is missing, cannot be opened or cannot be read.
C8_ReadFailureIsAbsent ==
    \A p \in Procs : \A i \in Calls(p, "load") :
        hist[p][i].file.kind # "data"
            => /\ hist[p][i].result = "Ok" /\ hist[p][i].auth = None
               /\ pc[p] # "login" => (Len(hist[p]) > i /\ hist[p][i + 1].op = "login")

\* C9: the body of set_target_temp's request has "target" and, exactly when
\* the mode of the fetched heating record is OFF, a "mode" member switching
\* to MANUAL.
C9_TargetBody ==
    \A p \in Procs : \A i \in Calls(p, "node") :
        cmd[p].c = "set_target_temp" =>
            LET b == hist[p][i].body
                mode == heating_object[p][1].state.mode
            IN  /\ b[1] = <<"target", cmd[p].target_temp>>
                /\ mode = "OFF" => b = << b[1], <<"mode", "MANUAL">> >>
                /\ mode # "OFF" => b = << b[1] >>
                /\ heating_object[p][1].id = hist[p][i].device

\* C9 witness: a target was sent to a device that was OFF.
C9_Witness ==
    \E i \in Calls("a", "node") :
        /\ cmd["a"].c = "set_target_temp"
        /\ heating_object["a"][1].state.mode = "OFF"
        /\ Len(hist["a"][i].body) = 2

\* the finite number m * 10^-e, and: p took branch c and every change
\* request it sent starts with the member body1
Number(m, e) == [ok |-> TRUE, kind |-> "finite", m |-> m, e |-> e]
PostsOnly(p, c, body1) ==
    /\ cmd[p].c = c
    /\ \A i \in Calls(p, "node") : hist[p][i].body[1] = body1
    /\ Ended(p) => NCalls(p, "node") = 1

\* C10: the first argument decides: off, manual, schedule post the mode OFF,
\* MANUAL, SCHEDULE; an argument that parses as a number posts it as the
\* target; any other argument panics and no change request is sent.
C10_Dispatch ==
    \A p \in Procs :
        (cmd[p].c # "none" /\ Len(args[p]) >= 2) =>
            LET a == args[p][2]
            IN  /\ a = ArgOff => PostsOnly(p, "set_mode", <<"mode", "OFF">>)
                /\ a = ArgManual => PostsOnly(p, "set_mode", <<"mode", "MANUAL">>)
                /\ a = ArgSchedule => PostsOnly(p, "set_mode", <<"mode", "SCHEDULE">>)
                /\ a = Arg19p5 => PostsOnly(p, "set_target_temp", <<"target", Number(195, 1)>>)
                /\ a = Arg21 => PostsOnly(p, "set_target_temp", <<"target", Number(21, 0)>>)
                /\ a = ArgNan => PostsOnly(p, "set_target_temp", <<"target", Special("NaN")>>)
                /\ a \in {ArgAbc, ArgUpperOff} =>
                      /\ pc[p] = "panic" /\ err[p] = "ParseFloatError"
                      /\ NCalls(p, "node") = 0

\* C10 witness: "manual" was dispatched and its request went out.
C10_Witness ==
    /\ args["a"] = <<ProgName, ArgManual>> /\ pc["a"] = "done"
    /\ \E i \in Calls("a", "node") : hist["a"][i].body = << <<"mode", "MANUAL">> >>

-----------------------------------------------------------------------------
\* the positions of the heating records of a listing
HeatingAt(items) == {i \in DOMAIN items : items[i].type = "heating"}

\* C11: from a listing with at least one heating record the resolver takes
\* the first one in listing order, whatever precedes it; from a listing with
\* none the run panics, prints no status and sends no change request.
C11_FirstHeating ==
    \A p \in Procs :
        (product_json[p].kind = "array" /\ pc[p] # "find") =>
            LET items == product_json[p].items
            IN  IF HeatingAt(items) # {}
                THEN /\ heating_object[p] = Some(items[First(HeatingAt(items))])
                     /\ \A j \in 1..(heating_object[p][1].id - 1) : items[j].type # "heating"
                ELSE /\ pc[p] = "panic" /\ heating_object[p] = None
                     /\ out[p] = None /\ NCalls(p, "node") = 0

\* C11 witness: a heating record found behind a record of another type.
C11_Witness ==
    /\ product_json["a"].kind = "array" /\ Len(product_json["a"].items) = 2
    /\ product_json["a"].items[1].type = "light"
    /\ heating_object["a"] # None /\ heating_object["a"][1].id = 2

\* C12: a failure to write the token file ends the run in a panic with no
\* further call, and every listing fetch or change request that carries a
\* token issued by a login follows a successful save of that token.
C12_SaveFailureIsFatal ==
    \A p \in Procs :
        /\ \A i \in Calls(p, "save") :
              hist[p][i].result # "Ok" => (i = Len(hist[p]) /\ pc[p] = "panic")
        /\ \A i \in Calls(p, "products") \cup Calls(p, "node") :
              hist[p][i].auth[1].src = "login" =>
                  \E j \in Calls(p, "save") :
                      /\ j < i /\ hist[p][j].result = "Ok"
                      /\ hist[p][j].file = FileData(hist[p][i].auth[1])

\* C12 witness: the write failed after a login and the run stopped there.
C12_Witness ==
    /\ pc["a"] = "panic" /\ hist["a"] # << >>
    /\ hist["a"][Len(hist["a"])].op = "save"
    /\ hist["a"][Len(hist["a"])].result = "panic"
    /\ NCalls("a", "products") = 0

\* C13: a login answered without a token ends the run in a panic, leaves
\* the token file as it was and is the last call of the run, for the first
\* login and for the re-login alike.
C13_NoTokenIsFatal ==
    \A p \in Procs : \A i \in Calls(p, "login") :
        (hist[p][i].sent /\ hist[p][i].resp.net = "ok" /\ hist[p][i].resp.body.kind = "notoken")
            => /\ pc[p] = "panic"
               /\ i = Len(hist[p])
               /\ tokenFile = hist[p][i].file
               /\ NCalls(p, "save") = CallsBefore(p, "save", i)

\* C13 witness: the re-login after a rejected fetch got no token.
C13_Witness ==
    /\ pc["a"] = "panic" /\ retry["a"] /\ LoadedSome("a")
    /\ hist["a"][Len(hist["a"])].op = "login"
    /\ hist["a"][Len(hist["a"])].resp.body.kind = "notoken"
    /\ tokenFile = FileData(CachedToken(TRUE))

\* C15: a run without an argument sends no change request; its only
\* requests are logins and listing fetches.
C15_StatusSendsNoMutation ==
    \A p \in Procs :
        Len(args[p]) = 1 =>
            /\ NCalls(p, "node") = 0
            /\ \A i \in Requests(p) : hist[p][i].op \in {"login", "products"}
            /\ pc[p] \notin {"set_mode", "set_target_temp"}
            /\ pc[p] = "done" => out[p] # None

\* C15 witness: the status was printed after a login and a fetch.
C15_Witness ==
    /\ Len(args["a"]) = 1 /\ pc["a"] = "done" /\ out["a"] # None
    /\ NCalls("a", "login") = 1 /\ Cardinality(Requests("a")) = 2

\* C16: the fire indicator is printed exactly when working is true and the
\* mode is not OFF.
C16_FireIndicator ==
    \A p \in Procs :
        out[p] # None =>
            LET h == heating_object[p][1]
                fire == out[p][1].working_indicator
            IN  /\ h.state.mode = "OFF" => ~fire
                /\ ~h.props.working => ~fire
                /\ (h.props.working /\ h.state.mode \in {"MANUAL", "SCHEDULE"}) => fire

\* C16 witness: the device is OFF and working, and no indicator was printed.
C16_Witness ==
    /\ out["a"] # None /\ ~out["a"][1].working_indicator
    /\ heating_object["a"][1].state.mode = "OFF" /\ heating_object["a"][1].props.working

\* C17: a change request carries the token of the listing fetch that
\* succeeded: the one the last login issued when there was a login, and never
\* a token with which a fetch of this run failed.
C17_MutationUsesFetchToken ==
    \A p \in Procs : \A i \in Calls(p, "node") :
        /\ \E j \in Calls(p, "products") :
              /\ hist[p][j].result = "Ok" /\ hist[p][j].auth = hist[p][i].auth
              /\ \A k \in Calls(p, "products") : k <= j
        /\ \A j \in Calls(p, "products") :
              ~FetchOk(hist[p][j]) => hist[p][j].auth # hist[p][i].auth
        /\ \A j \in Calls(p, "save") :
              (\A k \in Calls(p, "save") : k <= j) => hist[p][i].auth = hist[p][j].auth

\* C17 witness: the cached token was rejected and the change request went
\* out with the token of the re-login.
C17_Witness ==
    \E i \in Calls("a", "node") :
        /\ LoadedSome("a") /\ FirstFetchFailed("a") /\ hist["a"][i].sent
        /\ hist["a"][i].auth = Some(IssuedToken(1, TRUE))

\* C18: in a single invocation the token file holds the token of every
\* listing fetch and change request at the moment it is sent.
C18_TokenMirroredOnDisk ==
    \A p \in Procs : \A i \in Requests(p) :
        hist[p][i].op \in {"products", "node"}
            => hist[p][i].file = FileData(hist[p][i].auth[1])

\* C18 witness: a change request sent with a token a re-login had saved.
C18_Witness ==
    \E i \in Calls("a", "node") :
        /\ hist["a"][i].sent /\ NCalls("a", "save") = 1 /\ retry["a"]
        /\ hist["a"][i].file = FileData(IssuedToken(1, TRUE))

\* a step of p that is the save of a token a login returned
SaveStep(p) ==
    /\ pc[p] = "save" /\ login_token[p] # None
    /\ NCalls(p, "login") > 0 /\ hist[p][Len(hist[p])].op = "login"
    /\ hist[p][Len(hist[p])].result = "Ok"
    /\ Len(hist'[p]) = Len(hist[p]) + 1 /\ hist'[p][Len(hist'[p])].op = "save"

\* C19: the token file changes only in the save of a login that returned a
\* token, which is made once per such login and leaves the file holding that
\* token; a run whose cached token is accepted ends with the file as it was
\* loaded.
C19_FileWrittenOnlyByLogin ==
    /\ [][tokenFile' # tokenFile => \E p \in Procs : SaveStep(p)]_vars
    /\ [](\A p \in Procs :
            /\ NCalls(p, "save") = Cardinality({i \in Calls(p, "login") : hist[p][i].result = "Ok"})
                                     - (IF pc[p] = "save" THEN 1 ELSE 0)
            /\ \A i \in Calls(p, "save") :
                  hist[p][i].result = "Ok" => hist[p][i].file = FileData(hist[p][i].auth[1])
            /\ (pc[p] = "done" /\ LoadedSome(p) /\ ~FirstFetchFailed(p))
                  => tokenFile = hist[p][1].file)

\* C19 witness: a run that logged in again has ended, the file written once.
C19_Witness ==
    /\ pc["a"] = "done" /\ NCalls("a", "save") = 1
    /\ hist["a"][1].file = FileData(CachedToken(TRUE))
    /\ tokenFile = FileData(IssuedToken(1, TRUE))

-----------------------------------------------------------------------------
(* Two invocations (SpecConc).                                             *)

\* The last two operations on the token file are the create and the
\* write_all of one save_token.
LastSaveWhole ==
    /\ Len(writes) >= 2
    /\ writes[Len(writes)].ev = "write_all"
    /\ writes[Len(writes) - 1] =
          FileEvent(writes[Len(writes)].by, "create", writes[Len(writes)].token)

\* Two saves overlapped: an operation of the other invocation on the file
\* fell between the create and the write_all of a save.
Overlap ==
    \E i \in DOMAIN writes :
        /\ writes[i].ev = "write_all"
        /\ i = 1 \/ writes[i - 1] # FileEvent(writes[i].by, "create", writes[i].token)

\* C14: after save_token(t), with nothing written to the file since,
\* load_token returns Some(t), whatever an earlier save had left in the file
\* (longer or shorter); and what a load returned is what the file held.
C14_RoundTrip ==
    /\ LastSaveWhole =>
          /\ load_token(home, tokenFile) = Ok(Some(writes[Len(writes)].token))
          /\ tokenFile = FileData(writes[Len(writes)].token)
    /\ \A p \in Procs : \A i \in Calls(p, "load") :
          hist[p][i].file.kind = "data" =>
              /\ hist[p][i].result = "Ok" /\ hist[p][i].auth # None
              /\ as_bytes(hist[p][i].auth[1]) = hist[p][i].file.data

\* C14 witness: b loaded the token a had saved, and then saved a shorter
\* token of its own over it.
C14_Witness ==
    /\ hist["b"] # << >> /\ hist["b"][1].op = "load"
    /\ hist["b"][1].auth = Some(IssuedToken(1, TRUE))
    /\ writes = <<FileEvent("a", "create", IssuedToken(1, TRUE)),
                  FileEvent("a", "write_all", IssuedToken(1, TRUE)),
                  FileEvent("b", "create", IssuedToken(2, TRUE)),
                  FileEvent("b", "write_all", IssuedToken(2, TRUE))>>
    /\ TokenLen(IssuedToken(2, TRUE)) < TokenLen(IssuedToken(1, TRUE))
    /\ tokenFile = FileData(IssuedToken(2, TRUE))

\* both invocations logged in, every save they made returned, and both ended
BothLoggedIn ==
    \A p \in Procs :
        /\ Ended(p)
        /\ Calls(p, "save") # {}
        /\ \A i \in Calls(p, "save") : hist[p][i].result = "Ok"

\* C20 (as stated): once two invocations that both logged in have finished,
\* the token file holds exactly the token of the save that wrote last, and
\* every listing fetch and change request an invocation sent after its save
\* carried the token it saved.
C20_LastWriterWins ==
    BothLoggedIn =>
        /\ tokenFile = FileData(writes[Len(writes)].token)
        /\ \A p \in Procs : \A i \in Calls(p, "save") : \A j \in Requests(p) :
              (j > i /\ \A k \in Calls(p, "save") : k <= i) =>
                  hist[p][j].auth = hist[p][i].auth

\* C20, first half, where it holds: the file holds the token of the save
\* that wrote last when no save was interrupted by the other invocation.
C20_LastWriterWinsWhole ==
    (BothLoggedIn /\ ~Overlap) => tokenFile = FileData(writes[Len(writes)].token)

\* C20, second half: an invocation's requests after its save carry the
\* token it saved, whatever the file holds.
C20_OwnTokenKept ==
    \A p \in Procs : \A i \in Calls(p, "save") : \A j \in Requests(p) :
        (j > i /\ \A k \in Calls(p, "save") : k <= i) => hist[p][j].auth = hist[p][i].auth

====
